---------------------------- MODULE Spec2Model ----------------------------
(***************************************************************************)
(* A model of the labelme -> YOLO conversion engine of                     *)
(* src/src/converter/yolo_converter.py (class YOLOConverter): the calls    *)
(* convert_dataset and validate_yolo_dataset over a small file system.     *)
(*                                                                         *)
(* Conventions.                                                            *)
(*  - A Python dict is a TLA+ function; a key is present iff it is in the  *)
(*    DOMAIN, so d.get(k, default) and d[k] (KeyError) are both modelled.  *)
(*  - A str is a sequence of code points, so that str.strip() and the      *)
(*    code-point order used by sorted() are computed, not assumed.         *)
(*  - A float is an exact fraction [num, den] in lowest terms with den > 0 *)
(*    (binary rounding is below the resolution of the model).              *)
(*  - A file name is [stem, ext] with ext including the dot, which is what *)
(*    os.path.splitext returns.                                            *)
(***************************************************************************)
EXTENDS Integers, Sequences, FiniteSets, TLC

VARIABLES
    \* ---- the file system ----
    inputExists,    \* os.path.exists(input_folder)
    inFiles,        \* os.listdir(input_folder): a set of file names
    inJson,         \* stem -> content of <stem>.json (meaningful when listed)
    out,            \* the output folder: directories, images, labels, config
    \* ---- the YOLOConverter instance ----
    class_mapping,      \* self.class_mapping
    conversion_stats,   \* self.conversion_stats
    \* ---- the activation of convert_dataset ----
    pc,             \* position inside convert_dataset ("idle" between calls)
    args,           \* train_ratio, copy_images, target_size of the call
    listing,        \* image_json_pairs, in os.listdir order
    train_pairs, val_pairs,     \* the result of _split_train_val
    idx, split_stats,   \* the running _convert_split loop: next pair, counters
    train_stats, val_stats,     \* what the two _convert_split calls returned
    result,         \* what the last call of convert_dataset returned or raised
    \* ---- bookkeeping of the verification (not program state) ----
    runsLeft,       \* calls of convert_dataset still allowed
    faultsLeft,     \* I/O failures (image copy, label write) still allowed
    trace,          \* per pair of the current run: how its conversion ended
    prev,           \* result and output tree at the end of the previous run
    \* ---- pure-function harnesses ----
    splitIn, splitOut,  \* _split_train_val on a list of n pairs
    boxIn, boxOut,      \* the coordinate transform on one rectangle
    vTree, vResult,     \* validate_yolo_dataset on an arbitrary folder
    \* ---- the dashboard's pre-check ----
    precheck,       \* what validate_folder_structure(input_folder) returned
    \* ---- the heap ----
    heldMappings    \* per returned summary: the dict its 'クラスマッピング' refers to

vars == << inputExists, inFiles, inJson, out, class_mapping, conversion_stats,
           pc, args, listing, train_pairs, val_pairs, idx,
           split_stats, train_stats, val_stats, result, runsLeft, faultsLeft,
           trace, prev, splitIn, splitOut, boxIn, boxOut, vTree, vResult,
           precheck, heldMappings >>

runVars == << inputExists, inFiles, inJson, out, class_mapping,
              conversion_stats, pc, args, listing, train_pairs, val_pairs,
              idx, split_stats, train_stats, val_stats, result,
              runsLeft, faultsLeft, trace, prev, heldMappings >>

-----------------------------------------------------------------------------
(* Generic helpers *)

Range(s) == { s[i] : i \in DOMAIN s }

\* All orderings of a finite set, as sequences without repetition.
Perms(S) ==
    { s \in [1..Cardinality(S) -> S] : \A i, j \in DOMAIN s : i # j => s[i] # s[j] }

\* dict[k] = v (insert or overwrite)
Put(d, k, v) == [x \in DOMAIN d \cup {k} |-> IF x = k THEN v ELSE d[x]]

EmptyDict == [x \in {} |-> 0]

Abs(x) == IF x < 0 THEN -x ELSE x

RECURSIVE Gcd(_, _)
Gcd(a, b) == IF b = 0 THEN a ELSE Gcd(b, a % b)

-----------------------------------------------------------------------------
(* str: strip() and the order used by sorted() *)

\* str.isspace() on one ASCII character
IsSpace(c) == c \in {9, 10, 11, 12, 13, 32}

RECURSIVE LStrip(_)
LStrip(s) == IF s # << >> /\ IsSpace(Head(s)) THEN LStrip(Tail(s)) ELSE s

RECURSIVE RStrip(_)
RStrip(s) ==
    IF s # << >> /\ IsSpace(s[Len(s)]) THEN RStrip(SubSeq(s, 1, Len(s) - 1)) ELSE s

\* label.strip()
Strip(s) == RStrip(LStrip(s))

\* s < t for Python str: code point by code point, a proper prefix is smaller
RECURSIVE StrLess(_, _)
StrLess(s, t) ==
    IF t = << >> THEN FALSE
    ELSE IF s = << >> THEN TRUE
    ELSE IF Head(s) # Head(t) THEN Head(s) < Head(t)
    ELSE StrLess(Tail(s), Tail(t))

\* A plausible slip: the classes enumerated in descending order.
RECURSIVE SortedDescending(_)
SortedDescending(S) ==
    IF S = {} THEN << >>
    ELSE LET m == CHOOSE x \in S : \A y \in S \ {x} : StrLess(y, x)
         IN  << m >> \o SortedDescending(S \ {m})

\* sorted(list(all_classes))
RECURSIVE Sorted(_)
Sorted(S) ==
    IF S = {} THEN << >>
    ELSE LET m == CHOOSE x \in S : \A y \in S \ {x} : StrLess(x, y)
         IN  << m >> \o Sorted(S \ {m})

\* {cls: idx for idx, cls in enumerate(sorted_classes)}
Enumerate(seq) ==
    [c \in Range(seq) |-> (CHOOSE i \in DOMAIN seq : seq[i] = c) - 1]

-----------------------------------------------------------------------------
(* float arithmetic of the coordinate transform, as exact fractions *)

Frac(n, d) ==
    LET g == Gcd(Abs(n), Abs(d))
        s == IF d < 0 THEN -1 ELSE 1
    IN  [num |-> (s * n) \div g, den |-> (s * d) \div g]

\* q / k for a fraction q and a non-zero integer k
FracDiv(q, k) == Frac(q.num, q.den * k)

\* A plausible slip: the two image dimensions exchanged in the divisions.
BoxOfDimsExchanged(x1, y1, x2, y2, img_width, img_height) ==
    [ center_x |-> FracDiv(FracDiv(Frac(x1 + x2, 1), 2), img_height),
      center_y |-> FracDiv(FracDiv(Frac(y1 + y2, 1), 2), img_width),
      width    |-> FracDiv(Frac(Abs(x2 - x1), 1), img_height),
      height   |-> FracDiv(Frac(Abs(y2 - y1), 1), img_width) ]

\* A plausible slip: the width taken without abs().
BoxOfSigned(x1, y1, x2, y2, img_width, img_height) ==
    [ center_x |-> FracDiv(FracDiv(Frac(x1 + x2, 1), 2), img_width),
      center_y |-> FracDiv(FracDiv(Frac(y1 + y2, 1), 2), img_height),
      width    |-> FracDiv(Frac(x2 - x1, 1), img_width),
      height   |-> FracDiv(Frac(y2 - y1, 1), img_height) ]

\* center_x, center_y, width, height of one rectangle (img_width, img_height # 0)
BoxOf(x1, y1, x2, y2, img_width, img_height) ==
    [ center_x |-> FracDiv(FracDiv(Frac(x1 + x2, 1), 2), img_width),
      center_y |-> FracDiv(FracDiv(Frac(y1 + y2, 1), 2), img_height),
      width    |-> FracDiv(Frac(Abs(x2 - x1), 1), img_width),
      height   |-> FracDiv(Frac(Abs(y2 - y1), 1), img_height) ]

\* f"{v:.6f}": the value in millionths, rounded to the nearest
Micro == 1000000

Fmt6(q) ==
    LET a == Abs(q.num)
        r == (2 * a * Micro + q.den) \div (2 * q.den)
    IN  IF q.num < 0 THEN -r ELSE r

\* f"{class_id} {center_x:.6f} {center_y:.6f} {width:.6f} {height:.6f}"
LabelLine(class_id, box) ==
    << class_id, Fmt6(box.center_x), Fmt6(box.center_y),
       Fmt6(box.width), Fmt6(box.height) >>

-----------------------------------------------------------------------------
(* The input folder: file names and annotation documents *)

File(stem, ext) == [stem |-> stem, ext |-> ext]

\* str.lower() on the extensions that occur
Lower(ext) ==
    CASE ext = ".JPG"  -> ".jpg"
      [] ext = ".JSON" -> ".json"
      [] OTHER         -> ext

image_extensions == {".jpg", ".jpeg", ".png", ".bmp", ".tiff", ".webp"}

\* f.lower().endswith(image_extensions)
IsImage(f) == Lower(f.ext) \in image_extensions

\* os.path.splitext(img_file)[0] + '.json'
JsonOf(img_file) == File(img_file.stem, ".json")

\* os.path.splitext(img_file)[0] + '.txt'
LabelOf(img_file) == File(img_file.stem, ".txt")

\* d.get(k, default)
Get(d, k, default) == IF k \in DOMAIN d THEN d[k] ELSE default

None == "<None>"

\* ---- the labels that occur: "a", "b", "B", " a ", " ", "" ----
La      == << 97 >>
Lb      == << 98 >>
LB      == << 66 >>
LaPad   == << 32, 97, 32 >>
LBlank  == << 32 >>
LEmpty  == << >>

Rect(label, p1, p2) ==
    [shape_type |-> "rectangle", label |-> label, points |-> << p1, p2 >>]
RectNoPoints(label) == [shape_type |-> "rectangle", label |-> label]
Polygon(label) ==
    [shape_type |-> "polygon", label |-> label,
     points |-> << <<0, 0>>, <<2, 0>>, <<2, 2>> >>]

Doc(w, h, shapes) == [imageWidth |-> w, imageHeight |-> h, shapes |-> shapes]

\* a file json.load() cannot parse
InvalidJson == [invalid |-> TRUE]

\* The annotation documents the input folder may hold.
JsonContents ==
    { InvalidJson,
      \* shapes = []
      Doc(4, 2, << >>),
      \* a padded label, and a polygon that must be ignored
      Doc(4, 2, << Rect(LaPad, <<0, 0>>, <<2, 2>>), Polygon(Lb) >>),
      \* corners in reverse order, then a rectangle without points
      Doc(4, 2, << Rect(Lb, <<4, 2>>, <<2, 0>>), RectNoPoints(La) >>),
      \* no imageWidth
      [imageHeight |-> 2, shapes |-> << Rect(LB, <<0, 0>>, <<2, 2>>) >>],
      \* imageWidth = 0, with and without a qualifying rectangle
      Doc(0, 2, << Rect(La, <<0, 0>>, <<2, 2>>) >>),
      Doc(0, 2, << Rect(LBlank, <<0, 0>>, <<2, 2>>) >>),
      \* imageWidth < 0
      Doc(-4, 2, << Rect(La, <<0, 0>>, <<2, 2>>) >>),
      \* no shapes key
      [imageWidth |-> 4, imageHeight |-> 2] }

Stems == {"a", "b"}

\* What os.listdir(input_folder) may hold: a.jpg and a.png share a.json.
FileNames ==
    { File("a", ".jpg"), File("a", ".png"), File("b", ".JPG"),
      File("a", ".json"), File("b", ".json") }

-----------------------------------------------------------------------------
(* _get_image_json_pairs *)

\* image_files in listing order -> the (img_file, json_file) pairs, in that order
RECURSIVE PairsOf(_, _)
PairsOf(image_files, all_files) ==
    IF image_files = << >> THEN << >>
    ELSE LET img_file == Head(image_files)
             rest == PairsOf(Tail(image_files), all_files)
         IN  IF JsonOf(img_file) \in all_files
             THEN << << img_file, JsonOf(img_file) >> >> \o rest
             ELSE rest

\* The pair lists _get_image_json_pairs can return for a folder: os.listdir
\* returns the entries in arbitrary order.
PairLists(all_files) ==
    { PairsOf(order, all_files) : order \in Perms({ f \in all_files : IsImage(f) }) }

-----------------------------------------------------------------------------
(* _collect_class_info *)

\* the labels one parsed document adds to all_classes
RECURSIVE LabelsOfShapes(_)
LabelsOfShapes(shapes) ==
    IF shapes = << >> THEN {}
    ELSE LET shape == Head(shapes)
             label == Strip(Get(shape, "label", LEmpty))
         IN  (IF Get(shape, "shape_type", None) = "rectangle" /\ label # LEmpty
              THEN {label} ELSE {})
             \cup LabelsOfShapes(Tail(shapes))

CollectError(json_file) == [where |-> "collect", file |-> json_file]

\* the loop over the pairs: [all_classes, errors]
RECURSIVE CollectLoop(_, _, _)
CollectLoop(pairs, json, acc) ==
    IF pairs = << >> THEN acc
    ELSE LET json_file == Head(pairs)[2]
             data == json[json_file.stem]
         IN  CollectLoop(Tail(pairs), json,
                 IF "invalid" \in DOMAIN data
                 THEN [acc EXCEPT !.errors = Append(@, CollectError(json_file))]
                 ELSE [acc EXCEPT !.all_classes =
                            @ \cup LabelsOfShapes(Get(data, "shapes", << >>))])

\* the class order of line 154
sorted_classes(all_classes) == Sorted(all_classes)

\* self.class_mapping after _collect_class_info
ClassMappingOf(all_classes) == Enumerate(sorted_classes(all_classes))

-----------------------------------------------------------------------------
(* _split_train_val *)

\* A plausible slip: round() instead of int().
SplitIdxRounded(n, train_ratio) ==
    (2 * n * train_ratio.num + train_ratio.den) \div (2 * train_ratio.den)

\* int(len(shuffled_pairs) * train_ratio), train_ratio = num / den > 0
SplitIdx(n, train_ratio) == (n * train_ratio.num) \div train_ratio.den

\* the two slices of the shuffled list
SplitTrainVal(shuffled_pairs, train_ratio) ==
    LET split_idx == SplitIdx(Len(shuffled_pairs), train_ratio)
    IN  [ train |-> SubSeq(shuffled_pairs, 1, split_idx),
          val   |-> SubSeq(shuffled_pairs, split_idx + 1, Len(shuffled_pairs)) ]

\* random.shuffle(pairs.copy()): any ordering of the same elements
Shuffles(pairs) == Perms(Range(pairs))

-----------------------------------------------------------------------------
(* The output folder *)

Splits == {"train", "val"}

\* the folders of _prepare_output_folders
OutDirs == {"images/train", "images/val", "labels/train", "labels/val"}

\* An output folder in which nothing has been created.  images and labels map
\* a split to a dict: file name -> content.
EmptyTree ==
    [ dirs   |-> {},
      images |-> [s \in Splits |-> EmptyDict],
      labels |-> [s \in Splits |-> EmptyDict],
      config |-> EmptyDict ]

\* _prepare_output_folders: os.makedirs(..., exist_ok=True) for the four folders
PrepareOutputFolders(tree) == [tree EXCEPT !.dirs = @ \cup OutDirs]

-----------------------------------------------------------------------------
(* _convert_single_pair *)

NoExc == "none"

\* the local state of the loop over data['shapes'] plus the shared class_counts
ShapeLoopStart(class_counts) ==
    [ exc |-> NoExc, yolo_annotations |-> << >>, annotation_count |-> 0,
      class_counts |-> class_counts ]

\* A plausible slip: self.class_mapping[label] looked up without the test
\* 'label in self.class_mapping'.
ShapeStepStrict(shape, img_width, img_height, mapping, st) ==
    LET label == Strip(Get(shape, "label", LEmpty))
    IN  IF Get(shape, "shape_type", None) # "rectangle" THEN st
        ELSE IF label \notin DOMAIN mapping THEN [st EXCEPT !.exc = "KeyError"]
        ELSE IF "points" \notin DOMAIN shape THEN [st EXCEPT !.exc = "KeyError"]
        ELSE IF Len(shape.points) < 2 THEN [st EXCEPT !.exc = "IndexError"]
        ELSE IF img_width = 0 \/ img_height = 0
             THEN [st EXCEPT !.exc = "ZeroDivisionError"]
        ELSE LET p1 == shape.points[1]
                 p2 == shape.points[2]
                 box == BoxOf(p1[1], p1[2], p2[1], p2[2], img_width, img_height)
             IN  [ exc |-> NoExc,
                   yolo_annotations |->
                       Append(st.yolo_annotations, LabelLine(mapping[label], box)),
                   annotation_count |-> st.annotation_count + 1,
                   class_counts |->
                       Put(st.class_counts, label, Get(st.class_counts, label, 0) + 1) ]

\* one iteration of the loop of lines 232-253
ShapeStep(shape, img_width, img_height, mapping, st) ==
    LET label == Strip(Get(shape, "label", LEmpty))
    IN  IF Get(shape, "shape_type", None) # "rectangle" THEN st
        ELSE IF label \notin DOMAIN mapping THEN st
        ELSE IF "points" \notin DOMAIN shape THEN [st EXCEPT !.exc = "KeyError"]
        ELSE IF Len(shape.points) < 2 THEN [st EXCEPT !.exc = "IndexError"]
        ELSE IF img_width = 0 \/ img_height = 0
             THEN [st EXCEPT !.exc = "ZeroDivisionError"]
        ELSE LET p1 == shape.points[1]
                 p2 == shape.points[2]
                 box == BoxOf(p1[1], p1[2], p2[1], p2[2], img_width, img_height)
             IN  [ exc |-> NoExc,
                   yolo_annotations |->
                       Append(st.yolo_annotations, LabelLine(mapping[label], box)),
                   annotation_count |-> st.annotation_count + 1,
                   class_counts |->
                       Put(st.class_counts, label, Get(st.class_counts, label, 0) + 1) ]

\* the loop; an exception ends it, keeping what was counted so far
RECURSIVE ShapeLoop(_, _, _, _, _)
ShapeLoop(shapes, img_width, img_height, mapping, st) ==
    IF shapes = << >> \/ st.exc # NoExc THEN st
    ELSE ShapeLoop(Tail(shapes), img_width, img_height, mapping,
                   ShapeStep(Head(shapes), img_width, img_height, mapping, st))

\* A plausible slip: the image copied into the folder of every split.
CopyImageEverySplit(tree, split, img_file) ==
    [tree EXCEPT !.images = [s \in DOMAIN @ |-> Put(@[s], img_file, img_file)]]

\* shutil.copy2(img_path, dst_img_path): the image under its own name
CopyImage(tree, split, img_file) ==
    [tree EXCEPT !.images[split] = Put(@, img_file, img_file)]

\* A plausible slip: no label file for an image without annotations.
WriteLabelFileIfAny(tree, split, img_file, yolo_annotations) ==
    IF yolo_annotations = << >> THEN tree
    ELSE [tree EXCEPT !.labels[split] = Put(@, LabelOf(img_file), yolo_annotations)]

\* lines 264-269: the label file, one line per annotation
WriteLabelFile(tree, split, img_file, yolo_annotations) ==
    [tree EXCEPT !.labels[split] = Put(@, LabelOf(img_file), yolo_annotations)]

\* target_size: Optional[Tuple[int, int]] = None; None is the empty tuple here
NoSize == << >>
TargetSizes == {NoSize, << 640, 640 >>}

\* what an I/O step of one conversion can do
Faults == {"none", "copy", "write"}

\* A plausible slip: with a target_size, the image written is a resized one.
ConvertSinglePairResizing(img_file, json_file, split, copy_images, target_size, mapping, class_counts, tree, json, fault) ==
    LET data == json[json_file.stem]
        fail(exc, counts, t) ==
            [exc |-> exc, annotation_count |-> 0, class_counts |-> counts, out |-> t]
    IN  IF "invalid" \in DOMAIN data THEN fail("JSONDecodeError", class_counts, tree)
        ELSE IF "imageWidth" \notin DOMAIN data \/ "imageHeight" \notin DOMAIN data
             THEN fail("KeyError", class_counts, tree)
        ELSE LET st == ShapeLoop(Get(data, "shapes", << >>), data.imageWidth,
                                 data.imageHeight, mapping,
                                 ShapeLoopStart(class_counts))
                 copied == IF ~copy_images THEN tree
                           ELSE IF target_size = NoSize
                                THEN CopyImage(tree, split, img_file)
                           ELSE [tree EXCEPT !.images[split] =
                                    Put(@, img_file, [img_file EXCEPT !.ext = "resized"])]
             IN  IF st.exc # NoExc THEN fail(st.exc, st.class_counts, tree)
                 ELSE IF copy_images /\ fault = "copy"
                      THEN fail("OSError", st.class_counts, tree)
                 ELSE IF fault = "write"
                      THEN fail("OSError", st.class_counts, copied)
                 ELSE [ exc |-> NoExc,
                        annotation_count |-> st.annotation_count,
                        class_counts |-> st.class_counts,
                        out |-> WriteLabelFile(copied, split, img_file,
                                               st.yolo_annotations) ]

\* _convert_single_pair.  fault says whether shutil.copy2 or the open() of
\* the label file fails this time.  The result: the exception raised (NoExc:
\* it returned success), the annotation count, and the class_counts and the
\* output folder it leaves behind.  target_size is accepted (line 213)
\* and never read.
ConvertSinglePair(img_file, json_file, split, copy_images, target_size, mapping, class_counts, tree, json, fault) ==
    LET data == json[json_file.stem]
        fail(exc, counts, t) ==
            [exc |-> exc, annotation_count |-> 0, class_counts |-> counts, out |-> t]
    IN  IF "invalid" \in DOMAIN data THEN fail("JSONDecodeError", class_counts, tree)
        ELSE IF "imageWidth" \notin DOMAIN data \/ "imageHeight" \notin DOMAIN data
             THEN fail("KeyError", class_counts, tree)
        ELSE LET st == ShapeLoop(Get(data, "shapes", << >>), data.imageWidth,
                                 data.imageHeight, mapping,
                                 ShapeLoopStart(class_counts))
                 copied == IF copy_images THEN CopyImage(tree, split, img_file)
                           ELSE tree
             IN  IF st.exc # NoExc THEN fail(st.exc, st.class_counts, tree)
                 ELSE IF copy_images /\ fault = "copy"
                      THEN fail("OSError", st.class_counts, tree)
                 ELSE IF fault = "write"
                      THEN fail("OSError", st.class_counts, copied)
                 ELSE [ exc |-> NoExc,
                        annotation_count |-> st.annotation_count,
                        class_counts |-> st.class_counts,
                        out |-> WriteLabelFile(copied, split, img_file,
                                               st.yolo_annotations) ]

-----------------------------------------------------------------------------
(* _convert_split *)

NewSplitStats == [converted |-> 0, skipped |-> 0, annotations |-> 0, errors |-> << >>]

\* f"{img_file}: {e}"
ConvertError(img_file, exc) == [where |-> "convert", file |-> img_file, exc |-> exc]

\* A plausible slip: the except branch swallows the failure of a pair without
\* counting it.
SplitStatsAfterSilent(stats, img_file, r) ==
    IF r.exc = NoExc
    THEN [stats EXCEPT !.converted = @ + 1, !.annotations = @ + r.annotation_count]
    ELSE stats

\* the body of the loop of lines 186-202, given what the conversion did
SplitStatsAfter(stats, img_file, r) ==
    IF r.exc = NoExc
    THEN [stats EXCEPT !.converted = @ + 1, !.annotations = @ + r.annotation_count]
    ELSE [stats EXCEPT !.skipped = @ + 1,
                       !.errors = Append(@, ConvertError(img_file, r.exc))]

-----------------------------------------------------------------------------
(* _reset_stats, _generate_config_files, _generate_summary *)

NewStats ==
    [ total_images |-> 0, converted_images |-> 0, skipped_images |-> 0,
      total_annotations |-> 0, class_counts |-> EmptyDict, errors |-> << >> ]

\* A plausible slip: the lines of classes.names written in reverse order.
ClassNamesLinesDescending(mapping) == SortedDescending(DOMAIN mapping)

\* the lines the loop of line 283 writes: one label a line, in sorted order
ClassNamesLines(mapping) == Sorted(DOMAIN mapping)

\* A plausible slip: classes.names opened in append mode.
WriteLinesAppend(files, name, lines) ==
    Put(files, name, (IF name \in DOMAIN files THEN files[name] ELSE << >>) \o lines)

\* open(path, 'w') and the writes: the file holds the lines written and
\* nothing of what it held before
WriteLines(files, name, lines) == Put(files, name, lines)

\* classes.names, dataset.yaml and README.txt written into the output folder
GenerateConfigFiles(tree, mapping) ==
    [tree EXCEPT !.config =
        Put(Put(WriteLines(@, "classes.names", ClassNamesLines(mapping)),
                "dataset.yaml",
                [ path |-> "abspath(output_folder)", train |-> "images/train",
                  val |-> "images/val", nc |-> Cardinality(DOMAIN mapping),
                  names |-> Sorted(DOMAIN mapping) ]),
            "README.txt", "usage note")]

\* A plausible slip: the error list of the summary taken from the training
\* split only.
GenerateSummaryTrainErrors(mapping, stats, tstats, vstats) ==
    [ success |-> TRUE,
      statistics |->
        [ converted |-> tstats.converted + vstats.converted,
          skipped |-> tstats.skipped + vstats.skipped,
          total_annotations |-> tstats.annotations + vstats.annotations,
          train_count |-> tstats.converted,
          val_count |-> vstats.converted,
          num_classes |-> Cardinality(DOMAIN mapping) ],
      class_info |-> stats.class_counts,
      class_mapping |-> mapping,
      output_files |-> {"dataset.yaml", "classes.names", "README.txt"},
      errors |-> tstats.errors ]

\* A plausible slip: the mapping of the summary rebuilt from the classes that
\* were counted.
GenerateSummaryCountedClasses(mapping, stats, tstats, vstats) ==
    [ success |-> TRUE,
      statistics |->
        [ converted |-> tstats.converted + vstats.converted,
          skipped |-> tstats.skipped + vstats.skipped,
          total_annotations |-> tstats.annotations + vstats.annotations,
          train_count |-> tstats.converted,
          val_count |-> vstats.converted,
          num_classes |-> Cardinality(DOMAIN mapping) ],
      class_info |-> stats.class_counts,
      class_mapping |-> Enumerate(Sorted(DOMAIN stats.class_counts)),
      output_files |-> {"dataset.yaml", "classes.names", "README.txt"},
      errors |-> tstats.errors \o vstats.errors ]

\* the dict _generate_summary returns (keys in English)
GenerateSummary(mapping, stats, tstats, vstats) ==
    [ success |-> TRUE,
      statistics |->
        [ converted |-> tstats.converted + vstats.converted,
          skipped |-> tstats.skipped + vstats.skipped,
          total_annotations |-> tstats.annotations + vstats.annotations,
          train_count |-> tstats.converted,
          val_count |-> vstats.converted,
          num_classes |-> Cardinality(DOMAIN mapping) ],
      class_info |-> stats.class_counts,
      class_mapping |-> mapping,
      output_files |-> {"dataset.yaml", "classes.names", "README.txt"},
      errors |-> tstats.errors \o vstats.errors ]

-----------------------------------------------------------------------------
(* validate_yolo_dataset *)

required_items ==
    << "images/train", "images/val", "labels/train", "labels/val", "dataset.yaml" >>

\* What the validator sees of a folder: for each required item whether it is
\* absent, a directory or a regular file, and the entries of the four folders.
TreeOf(tree) ==
    [ kind |-> [it \in Range(required_items) |->
                  IF it = "dataset.yaml"
                  THEN (IF it \in DOMAIN tree.config THEN "file" ELSE "absent")
                  ELSE (IF it \in tree.dirs THEN "dir" ELSE "absent")],
      entries |-> [d \in OutDirs |->
                  CASE d = "images/train" -> DOMAIN tree.images["train"]
                    [] d = "images/val"   -> DOMAIN tree.images["val"]
                    [] d = "labels/train" -> DOMAIN tree.labels["train"]
                    [] d = "labels/val"   -> DOMAIN tree.labels["val"]] ]

\* f"必須項目が見つかりません: {item}"
MissingError(item) == [missing |-> item]

\* A plausible slip: the loop left at the first missing item.
RECURSIVE MissingErrorsFirstOnly(_, _)
MissingErrorsFirstOnly(items, t) ==
    IF items = << >> THEN << >>
    ELSE IF t.kind[Head(items)] = "absent" THEN << MissingError(Head(items)) >>
    ELSE MissingErrorsFirstOnly(Tail(items), t)

\* the errors of the loop of lines 365-369, in the order of required_items
RECURSIVE MissingErrors(_, _)
MissingErrors(items, t) ==
    IF items = << >> THEN << >>
    ELSE (IF t.kind[Head(items)] = "absent" THEN << MissingError(Head(items)) >> ELSE << >>)
         \o MissingErrors(Tail(items), t)

\* the mismatch warning of one split
CountWarning(split, images, labels) ==
    IF images # labels
    THEN << [split |-> split, images |-> images, labels |-> labels] >>
    ELSE << >>

\* A plausible slip: a count mismatch reported as an error that invalidates.
ValidateYoloDatasetStrict(t) ==
    LET errors == MissingErrors(required_items, t)
        n(d) == Cardinality(t.entries[d])
        w == CountWarning("train", n("images/train"), n("labels/train"))
             \o CountWarning("val", n("images/val"), n("labels/val"))
    IN  IF errors # << >>
        THEN [ raised |-> NoExc, valid |-> FALSE, errors |-> errors,
               warnings |-> << >>, statistics |-> EmptyDict ]
        ELSE IF \E d \in OutDirs : t.kind[d] = "file"
        THEN [ raised |-> "NotADirectoryError" ]
        ELSE [ raised |-> NoExc, valid |-> (w = << >>), errors |-> w,
               warnings |-> << >>,
               statistics |->
                 [ train_images |-> n("images/train"), val_images |-> n("images/val"),
                   train_labels |-> n("labels/train"), val_labels |-> n("labels/val") ] ]

\* validate_yolo_dataset: the dict it returns, or the exception os.listdir
\* raises on a required folder that is a regular file
ValidateYoloDataset(t) ==
    LET errors == MissingErrors(required_items, t)
        n(d) == Cardinality(t.entries[d])
    IN  IF errors # << >>
        THEN [ raised |-> NoExc, valid |-> FALSE, errors |-> errors,
               warnings |-> << >>, statistics |-> EmptyDict ]
        ELSE IF \E d \in OutDirs : t.kind[d] = "file"
        THEN [ raised |-> "NotADirectoryError" ]
        ELSE [ raised |-> NoExc, valid |-> TRUE, errors |-> << >>,
               warnings |->
                 CountWarning("train", n("images/train"), n("labels/train"))
                 \o CountWarning("val", n("images/val"), n("labels/val")),
               statistics |->
                 [ train_images |-> n("images/train"), val_images |-> n("images/val"),
                   train_labels |-> n("labels/train"), val_labels |-> n("labels/val") ] ]

-----------------------------------------------------------------------------
(* Bounds *)

MaxFaults  == 1     \* I/O failures per behaviour
MaxPairs   == 4     \* pairs handed to _split_train_val on its own
MaxDen     == 5     \* train_ratio = num / den with 0 < num < den <= MaxDen
MaxCoord   == 3     \* corner coordinates range over -1 .. MaxCoord
MaxDim     == 2     \* imageWidth, imageHeight range over 1 .. MaxDim
MaxEntries == 12    \* entries per folder handed to validate_yolo_dataset

\* train_ratio of the calls of convert_dataset: 0.8 (the default) and 0.5
Ratios == { [num |-> 4, den |-> 5], [num |-> 1, den |-> 2] }

-----------------------------------------------------------------------------
(* Values of the variables outside their use *)

Idle == [idle |-> TRUE]

NoResult == [kind |-> "none"]
Running  == [kind |-> "running"]
Raised(exc) == [kind |-> "raise", exc |-> exc]
Returned(summary) == [kind |-> "return", summary |-> summary]

HarnessIdle ==
    /\ splitIn = Idle /\ splitOut = Idle
    /\ boxIn = Idle /\ boxOut = Idle
    /\ vTree = Idle
    /\ precheck = Idle

ConverterIdle ==
    /\ inputExists = FALSE /\ inFiles = {} /\ inJson = [s \in Stems |-> InvalidJson]
    /\ out = EmptyTree
    /\ class_mapping = EmptyDict
    /\ conversion_stats = NewStats
    /\ pc = "idle" /\ args = Idle /\ listing = << >>
    /\ train_pairs = << >> /\ val_pairs = << >>
    /\ idx = 0 /\ split_stats = NewSplitStats
    /\ train_stats = NewSplitStats /\ val_stats = NewSplitStats
    /\ result = NoResult
    /\ runsLeft = 0 /\ faultsLeft = 0
    /\ trace = << >> /\ prev = Idle
    /\ heldMappings = << >>

-----------------------------------------------------------------------------
(* convert_dataset, one action per step of its body *)

\* the stems whose annotation file is listed beside an image of that stem
ReadStems(files) ==
    { st \in Stems : File(st, ".json") \in files
                     /\ \E f \in files : IsImage(f) /\ f.stem = st }

\* The state after YOLOConverter() over an input folder; the content of an
\* annotation file nothing reads is left at a fixed value.
InitConverter(fileSets, runs) ==
    /\ inputExists \in BOOLEAN
    /\ inFiles \in fileSets
    /\ ~inputExists => inFiles = {}
    /\ inJson \in [Stems -> JsonContents]
    /\ \A st \in Stems \ ReadStems(inFiles) : inJson[st] = InvalidJson
    /\ out = EmptyTree
    /\ class_mapping = EmptyDict
    /\ conversion_stats = NewStats
    /\ pc = "idle" /\ args = Idle /\ listing = << >>
    /\ train_pairs = << >> /\ val_pairs = << >>
    /\ idx = 0 /\ split_stats = NewSplitStats
    /\ train_stats = NewSplitStats /\ val_stats = NewSplitStats
    /\ result = NoResult
    /\ runsLeft = runs /\ faultsLeft = MaxFaults
    /\ trace = << >> /\ prev = Idle
    /\ heldMappings = << >>
    /\ vResult = Idle
    /\ HarnessIdle

\* A plausible slip: the instance's dict emptied or refilled in place
\* (self.class_mapping.clear(), .update()), so that the dict the last summary
\* refers to changes with it.
HeldAfterInPlace(held, new_mapping) ==
    IF held = << >> THEN held ELSE [held EXCEPT ![Len(held)] = new_mapping]

\* self.class_mapping = {...} (lines 99, 155): the attribute is bound to a new
\* dict; the dicts that returned summaries refer to are not touched
HeldAfterRebind(held, new_mapping) == held

\* A plausible slip: the statistics initialised by __init__ only.
ResetStatsKeep(stats) == stats

\* _reset_stats (lines 89-98): self.conversion_stats is a new dict of zeroed
\* counters, whatever it held
ResetStats(stats) == NewStats

\* lines 50-55: the call, _reset_stats and the check of the input folder
ConvertDataset ==
    /\ pc = "idle" /\ runsLeft > 0
    /\ \E train_ratio \in Ratios, copy_images \in BOOLEAN, target_size \in TargetSizes :
          args' = [ train_ratio |-> train_ratio, copy_images |-> copy_images,
                    target_size |-> target_size ]
    /\ conversion_stats' = ResetStats(conversion_stats)
    /\ class_mapping' = EmptyDict
    /\ heldMappings' = HeldAfterRebind(heldMappings, EmptyDict)
    /\ listing' = << >> /\ train_pairs' = << >> /\ val_pairs' = << >>
    /\ idx' = 0 /\ split_stats' = NewSplitStats
    /\ train_stats' = NewSplitStats /\ val_stats' = NewSplitStats
    /\ trace' = << >>
    /\ prev' = [ result |-> result, out |-> out, args |-> args,
                 train_pairs |-> train_pairs, val_pairs |-> val_pairs ]
    /\ vResult' = Idle
    /\ IF inputExists
       THEN pc' = "prepare" /\ result' = Running /\ runsLeft' = runsLeft
       ELSE pc' = "idle" /\ result' = Raised("FileNotFoundError")
            /\ runsLeft' = runsLeft - 1
    /\ UNCHANGED << inputExists, inFiles, inJson, out, faultsLeft,
                    splitIn, splitOut, boxIn, boxOut, vTree, precheck >>

\* line 58
PrepareOutput ==
    /\ pc = "prepare"
    /\ out' = PrepareOutputFolders(out)
    /\ pc' = "pairs"
    /\ UNCHANGED << inputExists, inFiles, inJson, class_mapping, conversion_stats,
                    args, listing, train_pairs, val_pairs, idx, split_stats,
                    train_stats, val_stats, result, runsLeft, faultsLeft, trace,
                    prev, heldMappings, splitIn, splitOut, boxIn, boxOut, vTree, precheck, vResult >>

\* lines 61-64
GetImageJsonPairs ==
    /\ pc = "pairs"
    /\ \E image_json_pairs \in PairLists(inFiles) :
          /\ listing' = image_json_pairs
          /\ IF image_json_pairs = << >>
             THEN pc' = "idle" /\ result' = Raised("ValueError")
                  /\ runsLeft' = runsLeft - 1
             ELSE pc' = "collect" /\ UNCHANGED << result, runsLeft >>
    /\ UNCHANGED << inputExists, inFiles, inJson, out, class_mapping,
                    conversion_stats, args, train_pairs, val_pairs, idx,
                    split_stats, train_stats, val_stats, faultsLeft, trace, prev,
                    heldMappings, splitIn, splitOut, boxIn, boxOut, vTree, precheck, vResult >>

\* line 67: _collect_class_info
CollectClassInfo ==
    /\ pc = "collect"
    /\ LET c == CollectLoop(listing, inJson,
                            [all_classes |-> {}, errors |-> conversion_stats.errors])
       IN  /\ conversion_stats' = [conversion_stats EXCEPT !.errors = c.errors]
           /\ class_mapping' = ClassMappingOf(c.all_classes)
           /\ heldMappings' = HeldAfterRebind(heldMappings, ClassMappingOf(c.all_classes))
    /\ pc' = "split"
    /\ UNCHANGED << inputExists, inFiles, inJson, out, args, listing, train_pairs,
                    val_pairs, idx, split_stats, train_stats, val_stats, result,
                    runsLeft, faultsLeft, trace, prev,
                    splitIn, splitOut, boxIn, boxOut, vTree, precheck, vResult >>

\* line 70: _split_train_val, then the first _convert_split call begins
SplitPairs ==
    /\ pc = "split"
    /\ \E shuffled_pairs \in Shuffles(listing) :
          LET sp == SplitTrainVal(shuffled_pairs, args.train_ratio)
          IN  train_pairs' = sp.train /\ val_pairs' = sp.val
    /\ idx' = 1 /\ split_stats' = NewSplitStats
    /\ pc' = "train"
    /\ UNCHANGED << inputExists, inFiles, inJson, out, class_mapping,
                    conversion_stats, args, listing, train_stats, val_stats,
                    result, runsLeft, faultsLeft, trace, prev,
                    heldMappings, splitIn, splitOut, boxIn, boxOut, vTree, precheck, vResult >>

\* A plausible slip: the first _convert_split call given every pair found.
CurrentPairsWhole == IF pc = "train" THEN listing ELSE val_pairs

\* the pairs of the _convert_split call in progress
CurrentPairs == IF pc = "train" THEN train_pairs ELSE val_pairs

\* one iteration of the loop of _convert_split: lines 186-202
ConvertPair ==
    /\ pc \in Splits
    /\ idx <= Len(CurrentPairs)
    /\ \E fault \in (IF faultsLeft > 0 THEN Faults ELSE {"none"}) :
          LET pair == CurrentPairs[idx]
              r == ConvertSinglePair(pair[1], pair[2], pc, args.copy_images,
                                     args.target_size, class_mapping,
                                     conversion_stats.class_counts, out, inJson, fault)
          IN  /\ fault # "none" => r.exc = "OSError"
              /\ faultsLeft' = IF fault = "none" THEN faultsLeft ELSE faultsLeft - 1
              /\ conversion_stats' =
                     [conversion_stats EXCEPT !.class_counts = r.class_counts]
              /\ out' = r.out
              /\ split_stats' = SplitStatsAfter(split_stats, pair[1], r)
              /\ trace' = Append(trace,
                     [ pair |-> pair, split |-> pc, exc |-> r.exc,
                       annotation_count |-> r.annotation_count ])
    /\ idx' = idx + 1
    /\ UNCHANGED << inputExists, inFiles, inJson, class_mapping, pc, args, listing,
                    train_pairs, val_pairs, train_stats, val_stats, result,
                    runsLeft, prev, heldMappings, splitIn, splitOut, boxIn, boxOut, vTree, precheck,
                    vResult >>

\* _convert_split returns (line 204); after 'train' the 'val' call begins
ConvertSplitReturn ==
    /\ pc \in Splits
    /\ idx > Len(CurrentPairs)
    /\ IF pc = "train"
       THEN /\ train_stats' = split_stats /\ UNCHANGED val_stats
            /\ idx' = 1 /\ split_stats' = NewSplitStats
            /\ pc' = "val"
       ELSE /\ val_stats' = split_stats /\ UNCHANGED train_stats
            /\ UNCHANGED << idx, split_stats >>
            /\ pc' = "config"
    /\ UNCHANGED << inputExists, inFiles, inJson, out, class_mapping,
                    conversion_stats, args, listing, train_pairs, val_pairs,
                    result, runsLeft, faultsLeft, trace, prev,
                    heldMappings, splitIn, splitOut, boxIn, boxOut, vTree, precheck, vResult >>

\* line 84
GenerateConfig ==
    /\ pc = "config"
    /\ out' = GenerateConfigFiles(out, class_mapping)
    /\ pc' = "summary"
    /\ UNCHANGED << inputExists, inFiles, inJson, class_mapping, conversion_stats,
                    args, listing, train_pairs, val_pairs, idx, split_stats,
                    train_stats, val_stats, result, runsLeft, faultsLeft, trace,
                    prev, heldMappings, splitIn, splitOut, boxIn, boxOut, vTree, precheck, vResult >>

\* line 87: the summary is returned to the caller
ReturnSummary ==
    /\ pc = "summary"
    /\ result' = Returned(GenerateSummary(class_mapping, conversion_stats,
                                          train_stats, val_stats))
    /\ heldMappings' = Append(heldMappings, class_mapping)
    /\ pc' = "idle"
    /\ runsLeft' = runsLeft - 1
    /\ UNCHANGED << inputExists, inFiles, inJson, out, class_mapping,
                    conversion_stats, args, listing, train_pairs, val_pairs, idx,
                    split_stats, train_stats, val_stats, faultsLeft, trace, prev,
                    splitIn, splitOut, boxIn, boxOut, vTree, precheck, vResult >>

\* validate_yolo_dataset(result['出力フォルダ']) after a conversion, as the
\* dashboard calls it (streamlit_app.py line 333)
ValidateOutput ==
    /\ pc = "idle" /\ result.kind = "return" /\ vResult = Idle
    /\ vResult' = ValidateYoloDataset(TreeOf(out))
    /\ UNCHANGED << runVars, splitIn, splitOut, boxIn, boxOut, vTree, precheck >>

Next ==
    \/ ConvertDataset
    \/ PrepareOutput
    \/ GetImageJsonPairs
    \/ CollectClassInfo
    \/ SplitPairs
    \/ ConvertPair
    \/ ConvertSplitReturn
    \/ GenerateConfig
    \/ ReturnSummary
    \/ ValidateOutput

\* one call of convert_dataset on a fresh converter, any input folder
Init == InitConverter(SUBSET FileNames, 1)

Spec == Init /\ [][Next]_vars

\* two calls on the same converter into the same output folder, over a folder
\* of two pairs
RerunFiles ==
    { File("a", ".jpg"), File("b", ".JPG"), File("a", ".json"), File("b", ".json") }

InitRerun == InitConverter({RerunFiles}, 2) /\ inputExists

SpecRerun == InitRerun /\ [][Next]_vars

-----------------------------------------------------------------------------
(* _split_train_val on its own: any pair count up to MaxPairs, any ratio *)

\* train_ratio strictly between 0 and 1
SplitRatios == { r \in [num : 1..MaxDen, den : 2..MaxDen] : r.num < r.den }

\* a list of n distinct pairs (a pair is known by its number)
PairList(n) == [i \in 1..n |-> i]

InitSplit ==
    /\ splitIn \in { [pairs |-> PairList(n), train_ratio |-> r] :
                       n \in 0..MaxPairs, r \in SplitRatios }
    /\ splitOut = Idle
    /\ boxIn = Idle /\ boxOut = Idle /\ vTree = Idle /\ vResult = Idle
    /\ precheck = Idle
    /\ ConverterIdle

\* train_pairs, val_pairs = self._split_train_val(pairs, train_ratio)
SplitCall ==
    /\ splitIn # Idle /\ splitOut = Idle
    /\ \E shuffled_pairs \in Shuffles(splitIn.pairs) :
          splitOut' = SplitTrainVal(shuffled_pairs, splitIn.train_ratio)
    /\ UNCHANGED << runVars, splitIn, boxIn, boxOut, vTree, precheck, vResult >>

NextSplit == SplitCall

SpecSplit == InitSplit /\ [][NextSplit]_vars

-----------------------------------------------------------------------------
(* the coordinate transform on its own: any corners, any image size *)

InitBox ==
    /\ boxIn \in [ x1 : -1..MaxCoord, y1 : -1..MaxCoord,
                   x2 : -1..MaxCoord, y2 : -1..MaxCoord,
                   W : 1..MaxDim, H : 1..MaxDim ]
    /\ boxOut = Idle
    /\ splitIn = Idle /\ splitOut = Idle /\ vTree = Idle /\ vResult = Idle
    /\ precheck = Idle
    /\ ConverterIdle

\* the annotation of the rectangle with points [P1, P2], and of the same
\* rectangle with points [P2, P1]
ConvertBox ==
    /\ boxIn # Idle /\ boxOut = Idle
    /\ boxOut' =
         [ box     |-> BoxOf(boxIn.x1, boxIn.y1, boxIn.x2, boxIn.y2, boxIn.W, boxIn.H),
           swapped |-> BoxOf(boxIn.x2, boxIn.y2, boxIn.x1, boxIn.y1, boxIn.W, boxIn.H) ]
    /\ UNCHANGED << runVars, splitIn, splitOut, boxIn, vTree, precheck, vResult >>

NextBox == ConvertBox

SpecBox == InitBox /\ [][NextBox]_vars

-----------------------------------------------------------------------------
(* validate_yolo_dataset on its own: any folder *)

\* a folder: each required item absent, a directory or a regular file; a
\* directory holds 0..MaxEntries entries (an entry is known by its number)
ValidatorTrees ==
    { t \in [ kind : [Range(required_items) -> {"absent", "dir", "file"}],
              entries : [OutDirs -> { 1..n : n \in 0..MaxEntries }] ] :
        \A d \in OutDirs : t.kind[d] # "dir" => t.entries[d] = {} }

InitValidate ==
    /\ vTree \in ValidatorTrees
    /\ vResult = Idle
    /\ precheck = Idle
    /\ splitIn = Idle /\ splitOut = Idle /\ boxIn = Idle /\ boxOut = Idle
    /\ ConverterIdle

\* validation = converter.validate_yolo_dataset(folder)
ValidateCall ==
    /\ vTree # Idle /\ vResult = Idle
    /\ vResult' = ValidateYoloDataset(vTree)
    /\ UNCHANGED << runVars, splitIn, splitOut, boxIn, boxOut, vTree, precheck >>

NextValidate == ValidateCall

SpecValidate == InitValidate /\ [][NextValidate]_vars

-----------------------------------------------------------------------------
(* The claims *)

\* how often x occurs in the sequence s
Occurrences(s, x) == Cardinality({ i \in DOMAIN s : s[i] = x })

\* C1 (checked under SpecSplit): for a list of n distinct pairs and a ratio
\* 0 < r < 1, _split_train_val returns (train, val) in which every input
\* pair occurs exactly once over the two lists, len(train) + len(val) = n and
\* len(train) = floor(r * n), i.e. len(train) <= r * n < len(train) + 1.
C1_SplitPartitions ==
    splitOut # Idle =>
        LET n == Len(splitIn.pairs)
            r == splitIn.train_ratio
            t == Len(splitOut.train)
        IN  /\ \A p \in Range(splitIn.pairs) :
                  Occurrences(splitOut.train, p) + Occurrences(splitOut.val, p) = 1
            /\ Range(splitOut.train) \cup Range(splitOut.val) \subseteq Range(splitIn.pairs)
            /\ t + Len(splitOut.val) = n
            /\ t * r.den <= r.num * n
            /\ r.num * n < (t + 1) * r.den

\* four pairs at ratio 4/5: three go to train, the remainder to val
C1_Witness ==
    /\ splitOut # Idle
    /\ Len(splitIn.pairs) = 4
    /\ splitIn.train_ratio = [num |-> 4, den |-> 5]
    /\ Len(splitOut.train) = 3 /\ Len(splitOut.val) = 1

\* the pairs of the input folder: every image with its annotation file listed
FolderPairs == { << f, JsonOf(f) >> : f \in { g \in inFiles : IsImage(g) /\ JsonOf(g) \in inFiles } }

\* the documents of the paired annotation files that parse
ParsedDocs ==
    { inJson[p[2].stem] : p \in { q \in FolderPairs : "invalid" \notin DOMAIN inJson[q[2].stem] } }

\* the distinct non-empty trimmed labels of the rectangles of one document
RectangleLabels(data) ==
    LET shapes == Get(data, "shapes", << >>)
    IN  { Strip(Get(shapes[i], "label", LEmpty)) :
            i \in { j \in DOMAIN shapes : Get(shapes[j], "shape_type", None) = "rectangle" } }
        \ { LEmpty }

\* the labels found in all paired annotation files, whatever the scan order
FoundLabels == UNION { RectangleLabels(data) : data \in ParsedDocs }

\* class discovery of the current call has completed
ClassesCollected == pc \in {"split", "train", "val", "config", "summary"}

\* C2: after class discovery the class mapping is a bijection from the set of
\* distinct non-empty trimmed rectangle labels of all paired annotation files
\* onto 0..N-1, indices follow the lexicographic order of the labels, and the
\* mapping depends on the folder only, not on the order of the scan.
C2_ClassMappingSortedBijection ==
    ClassesCollected =>
        LET N == Cardinality(FoundLabels)
        IN  /\ DOMAIN class_mapping = FoundLabels
            /\ { class_mapping[l] : l \in DOMAIN class_mapping } = 0..(N - 1)
            /\ \A l1, l2 \in DOMAIN class_mapping :
                  /\ l1 # l2 => class_mapping[l1] # class_mapping[l2]
                  /\ StrLess(l1, l2) => class_mapping[l1] < class_mapping[l2]

\* three labels from two files, found in either scan order: "B" < "a" < "b"
C2_Witness ==
    /\ pc = "split"
    /\ Len(listing) = 2
    /\ listing[1][2] = File("b", ".json")
    /\ DOMAIN class_mapping = {LB, La, Lb}
    /\ class_mapping[LB] = 0 /\ class_mapping[La] = 1 /\ class_mapping[Lb] = 2

\* a * d = b * c states a / b = c / d
SameFraction(q, n, d) == q.num * d = n * q.den

\* C3 (checked under SpecBox): a rectangle with corners (x1,y1),(x2,y2) in a
\* W x H image converts to center_x = (x1+x2)/2/W, center_y = (y1+y2)/2/H,
\* width = |x2-x1|/W, height = |y2-y1|/H, and the corners given in the
\* opposite order give the identical box.
C3_BoxFormulaCornerOrder ==
    boxOut # Idle =>
        LET b == boxOut.box
            dx == IF boxIn.x2 >= boxIn.x1 THEN boxIn.x2 - boxIn.x1 ELSE boxIn.x1 - boxIn.x2
            dy == IF boxIn.y2 >= boxIn.y1 THEN boxIn.y2 - boxIn.y1 ELSE boxIn.y1 - boxIn.y2
        IN  /\ SameFraction(b.center_x, boxIn.x1 + boxIn.x2, 2 * boxIn.W)
            /\ SameFraction(b.center_y, boxIn.y1 + boxIn.y2, 2 * boxIn.H)
            /\ SameFraction(b.width, dx, boxIn.W)
            /\ SameFraction(b.height, dy, boxIn.H)
            /\ boxOut.swapped = b

\* corners given bottom-right first: the width and height are still positive
C3_Witness ==
    /\ boxOut # Idle
    /\ boxIn.x1 > boxIn.x2 /\ boxIn.y1 > boxIn.y2
    /\ boxOut.box.width.num > 0 /\ boxOut.box.height.num > 0

\* the entries of the trace of the current run, and those that raised
Entries == { trace[i] : i \in DOMAIN trace }
Failed(e) == e.exc # NoExc

\* the current call has converted both splits
SplitsDone == pc \in {"config", "summary"} \/ (pc = "idle" /\ result.kind = "return")

\* C4: a failure while converting one pair (annotation file that does not
\* parse or lacks imageWidth/imageHeight, malformed rectangle, image copy
\* failure, label write failure) never aborts convert_dataset: the call raises
\* only before any pair is converted; every pair found is processed exactly
\* once; the summary counts each failed pair as skipped with an error message
\* naming it, and every pair that did not fail has its label file (and, with
\* copy_images, its image) in its split.
C4_PairFailureIsolated ==
    /\ result.kind = "raise" =>
          trace = << >> /\ result.exc \in {"FileNotFoundError", "ValueError"}
    /\ SplitsDone =>
          /\ Len(trace) = Len(listing)
          /\ \A p \in Range(listing) : Cardinality({ i \in DOMAIN trace : trace[i].pair = p }) = 1
    /\ \A e \in Entries :
          ~Failed(e) =>
              /\ LabelOf(e.pair[1]) \in DOMAIN out.labels[e.split]
              /\ args.copy_images => e.pair[1] \in DOMAIN out.images[e.split]
    /\ result.kind = "return" =>
          LET sm == result.summary
          IN  /\ sm.statistics.skipped = Cardinality({ i \in DOMAIN trace : Failed(trace[i]) })
              /\ sm.statistics.converted = Cardinality({ i \in DOMAIN trace : ~Failed(trace[i]) })
              /\ \A e \in Entries :
                    Failed(e) => Occurrences(sm.errors, ConvertError(e.pair[1], e.exc)) = 1

\* a pair fails, a later pair is still converted, and the summary is returned
C4_Witness ==
    /\ result.kind = "return"
    /\ \E i, j \in DOMAIN trace :
          /\ i < j
          /\ trace[i].exc = "OSError"
          /\ ~Failed(trace[j])
          /\ LabelOf(trace[j].pair[1]) \in DOMAIN out.labels[trace[j].split]
    /\ \E e \in Entries : e.exc = "JSONDecodeError"

\* the shapes of a document that become annotations under a class mapping
QualifyingShapes(data, mapping) ==
    LET shapes == Get(data, "shapes", << >>)
    IN  { i \in DOMAIN shapes :
            /\ Get(shapes[i], "shape_type", None) = "rectangle"
            /\ Strip(Get(shapes[i], "label", LEmpty)) \in DOMAIN mapping }

\* every error message recorded so far by the _convert_split calls
SplitErrors == Range(split_stats.errors) \cup Range(train_stats.errors) \cup Range(val_stats.errors)

\* C5: for every pair counted as converted, labels/<split>/<stem>.txt exists
\* in the pair's split and holds exactly one line per converted annotation;
\* without qualifying shapes (e.g. shapes = []) the file is still written and
\* is empty, the annotation count of the image is 0 and no error is recorded.
C5_LabelFileAlwaysWritten ==
    \A e \in Entries :
        ~Failed(e) =>
            LET img_file == e.pair[1]
                q == QualifyingShapes(inJson[e.pair[2].stem], class_mapping)
            IN  /\ LabelOf(img_file) \in DOMAIN out.labels[e.split]
                /\ Len(out.labels[e.split][LabelOf(img_file)]) = e.annotation_count
                /\ e.annotation_count = Cardinality(q)
                /\ q = {} =>
                      /\ out.labels[e.split][LabelOf(img_file)] = << >>
                      /\ e.annotation_count = 0
                      /\ \A m \in SplitErrors : m.file # img_file

\* a document with shapes = [] converted: an empty label file, count 0
C5_Witness ==
    \E e \in Entries :
        /\ ~Failed(e)
        /\ inJson[e.pair[2].stem] = Doc(4, 2, << >>)
        /\ out.labels[e.split][LabelOf(e.pair[1])] = << >>
        /\ e.annotation_count = 0
        /\ result.kind = "return"
        /\ result.summary.errors = << >>

\* C6 as claimed: when the input folder does not exist or holds no
\* image/annotation pair, convert_dataset raises and at that moment nothing
\* has been created or written under the (initially empty) output folder.
\* The code creates the four output folders before it looks for pairs.
C6_NothingCreatedOnStructuralError ==
    result.kind = "raise" => out = EmptyTree

\* C7 as claimed: an empty class vocabulary after scanning makes
\* convert_dataset abort instead of returning a success summary.  The code
\* has no such check.
C7_EmptyVocabularyAborts ==
    result.kind = "return" => result.summary.statistics.num_classes > 0

\* the second of two calls into the same output folder has returned
SecondRunDone ==
    /\ pc = "idle" /\ runsLeft = 0 /\ result.kind = "return"
    /\ prev # Idle /\ prev.result.kind = "return"

\* C8 as claimed (checked under SpecRerun): after two runs into the same
\* output folder the tree holds exactly the files of the second run: every
\* label file and every image present was written by the second run into
\* that split, so no label file is in both labels/train and labels/val.
\* The code never removes what an earlier run wrote.
C8_RerunReplacesOutput ==
    SecondRunDone =>
        /\ \A s \in Splits :
              /\ DOMAIN out.labels[s] =
                    { LabelOf(e.pair[1]) : e \in { x \in Entries : x.split = s /\ ~Failed(x) } }
              /\ DOMAIN out.images[s] \subseteq
                    { e.pair[1] : e \in { x \in Entries : x.split = s } }
        /\ DOMAIN out.labels["train"] \cap DOMAIN out.labels["val"] = {}

\* the required items missing from the folder handed to the validator
Missing == { it \in Range(required_items) : vTree.kind[it] = "absent" }

\* C9 (checked under SpecValidate): when any of images/train, images/val,
\* labels/train, labels/val or dataset.yaml is missing, validate_yolo_dataset
\* returns valid = False with exactly one error per missing item, naming that
\* item, no warnings and an empty statistics block.
C9_MissingItemsReported ==
    (vResult # Idle /\ Missing # {}) =>
        /\ vResult.raised = NoExc
        /\ vResult.valid = FALSE
        /\ Len(vResult.errors) = Cardinality(Missing)
        /\ \A it \in Missing : Occurrences(vResult.errors, MissingError(it)) = 1
        /\ vResult.warnings = << >>
        /\ DOMAIN vResult.statistics = {}

\* scenario D: only labels/val is missing, one error naming it
C9_Witness ==
    /\ vResult # Idle
    /\ Missing = {"labels/val"}
    /\ vResult.errors = << MissingError("labels/val") >>
    /\ vResult.valid = FALSE

\* the four split folders are there as folders, and dataset.yaml exists
AllPresent ==
    /\ \A d \in OutDirs : vTree.kind[d] = "dir"
    /\ vTree.kind["dataset.yaml"] # "absent"

\* C10 (checked under SpecValidate): with all five required items present
\* validate_yolo_dataset returns valid = True with the four entry counts as
\* statistics, no error, and exactly one warning for each split whose image
\* count differs from its label count, reporting the two counts.
C10_CountMismatchWarns ==
    (vResult # Idle /\ AllPresent) =>
        LET n(d) == Cardinality(vTree.entries[d])
            mismatch == { s \in Splits : n("images/" \o s) # n("labels/" \o s) }
        IN  /\ vResult.raised = NoExc
            /\ vResult.valid = TRUE
            /\ vResult.errors = << >>
            /\ vResult.statistics =
                  [ train_images |-> n("images/train"), val_images |-> n("images/val"),
                    train_labels |-> n("labels/train"), val_labels |-> n("labels/val") ]
            /\ Len(vResult.warnings) = Cardinality(mismatch)
            /\ \A s \in mismatch :
                  Occurrences(vResult.warnings,
                      [split |-> s, images |-> n("images/" \o s),
                       labels |-> n("labels/" \o s)]) = 1

\* scenario E: 12 entries in images/train, 10 in labels/train
C10_Witness ==
    /\ vResult # Idle
    /\ AllPresent
    /\ vTree.entries["images/train"] = 1..12
    /\ vTree.entries["labels/train"] = 1..10
    /\ vTree.entries["images/val"] = vTree.entries["labels/val"]
    /\ vResult.valid = TRUE
    /\ vResult.warnings = << [split |-> "train", images |-> 12, labels |-> 10] >>

\* C11 as claimed (checked under SpecValidate): validate_yolo_dataset never
\* raises, whatever the folder holds; every failure is in the returned dict.
\* With the five items present and one of the four folders a regular file,
\* os.listdir raises NotADirectoryError out of the call.
C11_ValidatorNeverRaises ==
    vResult # Idle => vResult.raised = NoExc

-----------------------------------------------------------------------------
(* C12 - C20 *)

\* the configuration files are on disk: _generate_config_files has returned
ConfigEmitted == pc = "summary" \/ (pc = "idle" /\ result.kind = "return")

C13_SummaryAccounting ==
    result.kind = "return" =>
        LET st == result.summary.statistics
            errors == result.summary.errors
        IN  /\ st.converted + st.skipped = Len(listing)
            /\ \A i \in DOMAIN listing :
                   /\ Cardinality({ k \in DOMAIN trace : trace[k].pair = listing[i] }) = 1
                   /\ Occurrences(train_pairs, listing[i])
                        + Occurrences(val_pairs, listing[i]) = 1
            /\ st.train_count + st.val_count = st.converted
            /\ st.train_count =
                   Cardinality({ k \in DOMAIN trace : trace[k].split = "train" /\ ~Failed(trace[k]) })
            /\ Len(errors) = st.skipped
            /\ \A i \in DOMAIN listing :
                   Cardinality({ k \in DOMAIN errors : errors[k].file = listing[i][1] })
                     = IF \E e \in Entries : e.pair = listing[i] /\ Failed(e) THEN 1 ELSE 0

\* three pairs found: one skipped in the validation split, one converted in
\* each split
C13_Witness ==
    /\ result.kind = "return"
    /\ Len(listing) = 3
    /\ result.summary.statistics.skipped = 1
    /\ result.summary.statistics.train_count = 1
    /\ result.summary.statistics.val_count = 1
    /\ \E e \in Entries : Failed(e) /\ e.split = "val"


\* C14 as claimed: every non-fatal error recorded during a run is in the error
\* list of the summary; in particular each parse-error message appended while
\* the class information is collected appears there.  The collection messages
\* go to conversion_stats['errors'] (line 151), which _generate_summary never
\* reads.
C14_CollectionErrorsInSummary ==
    result.kind = "return" =>
        \A m \in Range(conversion_stats.errors) \cup SplitErrors :
            m \in Range(result.summary.errors)


\* the images of the input folder with no annotation file of the same stem
UnpairedImages == { f \in inFiles : IsImage(f) /\ JsonOf(f) \notin inFiles }

\* C15 as claimed: the images of the input folder that have no matching
\* annotation file are reported as skipped in the summary: the skipped count
\* is the number of such images plus the number of pairs that failed.
\* _get_image_json_pairs drops such an image silently and nothing counts it.
C15_UnpairedImagesSkipped ==
    result.kind = "return" =>
        result.summary.statistics.skipped =
            Cardinality(UnpairedImages)
              + Cardinality({ k \in DOMAIN trace : Failed(trace[k]) })


\* the annotation parses but has no imageWidth or imageHeight, or one of them
\* is not positive
NoUsableSize(data) ==
    /\ data # InvalidJson
    /\ \/ "imageWidth" \notin DOMAIN data
       \/ "imageHeight" \notin DOMAIN data
       \/ data.imageWidth <= 0
       \/ data.imageHeight <= 0

\* C16 as claimed: a pair whose annotation lacks imageWidth or imageHeight, or
\* holds a non-positive value for either, yields no converted annotation and
\* no label line; it is recorded as a per-file error and counted as skipped.
\* The code never compares the sizes with 0: only a division by a size that
\* is exactly 0 fails.
C16_NoUsableSizeSkipped ==
    \A e \in Entries :
        NoUsableSize(inJson[e.pair[2].stem]) =>
            /\ Failed(e)
            /\ e.annotation_count = 0
            /\ ConvertError(e.pair[1], e.exc) \in SplitErrors


\* C17 (one run into an empty output folder): with copy_images, the image of
\* every converted pair is in images/<split> of its split under its own file
\* name, with the content of the source file, and in the folder of no other
\* split; the folder of a split holds images of pairs of that split only.
\* Without copy_images no image file is written anywhere, and the label file
\* of every converted pair is still written.
C17_ImageCopyFollowsFlag ==
    /\ \A e \in Entries :
          ~Failed(e) =>
              /\ LabelOf(e.pair[1]) \in DOMAIN out.labels[e.split]
              /\ args.copy_images =>
                    /\ e.pair[1] \in DOMAIN out.images[e.split]
                    /\ out.images[e.split][e.pair[1]] = e.pair[1]
                    /\ \A s \in Splits \ {e.split} : e.pair[1] \notin DOMAIN out.images[s]
    /\ \A s \in Splits : \A f \in DOMAIN out.images[s] :
          /\ args.copy_images
          /\ \E e \in Entries : e.pair[1] = f /\ e.split = s
    /\ (args # Idle /\ ~args.copy_images) =>
          \A s \in Splits : out.images[s] = EmptyDict

\* with copy_images, one pair is converted in each split
C17_Witness ==
    /\ result.kind = "return"
    /\ args.copy_images
    /\ \E e1, e2 \in Entries :
          /\ ~Failed(e1) /\ ~Failed(e2)
          /\ e1.split = "train" /\ e2.split = "val"
          /\ DOMAIN out.images["train"] = {e1.pair[1]}
          /\ e2.pair[1] \in DOMAIN out.images["val"]


\* 0 <= q <= 1, q > 1 and q < 0 for a fraction in lowest terms (den > 0)
InUnit(q) == 0 <= q.num /\ q.num <= q.den
AboveOne(q) == q.num > q.den
BelowZero(q) == q.num < 0

\* both corners of the rectangle lie in [0,W] x [0,H]
CornersInImage ==
    /\ \A x \in {boxIn.x1, boxIn.x2} : 0 <= x /\ x <= boxIn.W
    /\ \A y \in {boxIn.y1, boxIn.y2} : 0 <= y /\ y <= boxIn.H

\* C18 (checked under SpecBox): for a rectangle whose two corners lie in
\* [0,W] x [0,H] (W, H > 0), center_x, center_y, width and height all lie in
\* [0,1].  With a corner outside the image nothing is clamped: both corners
\* right of (below) the image give a center above 1, both corners left of
\* (above) it a center below 0, and corners further apart than the image a
\* width (height) above 1.
C18_NormalizedRange ==
    boxOut # Idle =>
        LET b == boxOut.box
        IN  /\ CornersInImage =>
                  InUnit(b.center_x) /\ InUnit(b.center_y)
                  /\ InUnit(b.width) /\ InUnit(b.height)
            /\ (boxIn.x1 > boxIn.W /\ boxIn.x2 > boxIn.W) => AboveOne(b.center_x)
            /\ (boxIn.y1 > boxIn.H /\ boxIn.y2 > boxIn.H) => AboveOne(b.center_y)
            /\ (boxIn.x1 < 0 /\ boxIn.x2 < 0) => BelowZero(b.center_x)
            /\ (boxIn.y1 < 0 /\ boxIn.y2 < 0) => BelowZero(b.center_y)
            /\ Abs(boxIn.x2 - boxIn.x1) > boxIn.W => AboveOne(b.width)
            /\ Abs(boxIn.y2 - boxIn.y1) > boxIn.H => AboveOne(b.height)

\* one corner right of the image and one above it: center_x and the width
\* are above 1, center_y is below 0
C18_Witness ==
    /\ boxOut # Idle
    /\ ~CornersInImage
    /\ boxIn.x1 = 0 /\ boxIn.x2 > 2 * boxIn.W
    /\ AboveOne(boxOut.box.center_x)
    /\ AboveOne(boxOut.box.width)
    /\ BelowZero(boxOut.box.center_y)


\* C19 (checked under SpecRerun, where a second run emits the configuration
\* files into the folder that holds those of the first run): when the class
\* mapping is the same at both emissions, classes.names and dataset.yaml hold
\* after the second emission exactly what they held after the first.
C19_ConfigEmissionIdempotent ==
    (/\ ConfigEmitted
     /\ prev # Idle
     /\ prev.result.kind = "return"
     /\ prev.result.summary.class_mapping = class_mapping) =>
        /\ out.config["classes.names"] = prev.out.config["classes.names"]
        /\ out.config["dataset.yaml"] = prev.out.config["dataset.yaml"]
        /\ DOMAIN out.config = DOMAIN prev.out.config

\* the second emission of a vocabulary of two labels has happened
C19_Witness ==
    /\ ConfigEmitted
    /\ prev # Idle
    /\ prev.result.kind = "return"
    /\ prev.result.summary.class_mapping = class_mapping
    /\ Cardinality(DOMAIN class_mapping) = 2
    /\ Len(prev.out.config["classes.names"]) = 2
    /\ Len(out.config["classes.names"]) = 2


\* two completed runs over the same input folder that differ in target_size
\* only: same train_ratio, same copy_images, same split assignment, and no
\* I/O fault in either
RunsDifferInTargetSizeOnly ==
    /\ SecondRunDone
    /\ faultsLeft = MaxFaults
    /\ prev.args.target_size # args.target_size
    /\ prev.args.train_ratio = args.train_ratio
    /\ prev.args.copy_images = args.copy_images
    /\ prev.train_pairs = train_pairs
    /\ prev.val_pairs = val_pairs

-----------------------------------------------------------------------------
(* C21 - C30 *)

\* what C21 says of one step of a run
C21_Step ==
    \* the mapping is assigned by the reset of the call and by class discovery
    \* only, both before any pair is converted
    /\ class_mapping' # class_mapping => pc \in {"idle", "collect"} /\ trace' = << >>
    \* from the end of class discovery until the summary is returned it does
    \* not change
    /\ ClassesCollected => class_mapping' = class_mapping
    \* a pair is converted only once the mapping is there
    /\ trace' # trace /\ trace' # << >> => ClassesCollected
    \* the class ids of the lines written for a pair are those the mapping
    \* gives to the labels of its qualifying rectangles
    /\ (Len(trace') = Len(trace) + 1 /\ ~Failed(trace'[Len(trace')])) =>
          LET e == trace'[Len(trace')]
              data == inJson[e.pair[2].stem]
              shapes == Get(data, "shapes", << >>)
              file == out'.labels[e.split][LabelOf(e.pair[1])]
          IN  { file[k][1] : k \in DOMAIN file } =
                  { class_mapping[Strip(shapes[i].label)] :
                        i \in QualifyingShapes(data, class_mapping) }
    \* the config files and the summary are written from the same mapping
    /\ pc = "config" =>
          /\ out'.config["classes.names"] = Sorted(DOMAIN class_mapping)
          /\ out'.config["dataset.yaml"].names = Sorted(DOMAIN class_mapping)
          /\ out'.config["dataset.yaml"].nc = Cardinality(DOMAIN class_mapping)
    /\ pc = "summary" => result'.summary.class_mapping = class_mapping

\* C21: within one run the class mapping is computed once, before any pair is
\* converted, and is not modified from then until the summary is returned;
\* every label line and the emitted config files and summary of the run use
\* that same mapping.
C21_MappingFixedForRun == [][C21_Step]_vars

\* a run returned with two classes; a label line carries the index 1 that
\* the mapping gives to the second of them
C21_Witness ==
    /\ result.kind = "return"
    /\ Cardinality(DOMAIN class_mapping) = 2
    /\ result.summary.class_mapping = class_mapping
    /\ \E s \in Splits : \E f \in DOMAIN out.labels[s] :
          \E k \in DOMAIN out.labels[s][f] : out.labels[s][f][k][1] = 1


\* the phase that may follow each phase of a run
NextPhases(p) ==
    CASE p = "idle"    -> {"idle", "prepare"}
      [] p = "prepare" -> {"pairs"}
      [] p = "pairs"   -> {"collect", "idle"}
      [] p = "collect" -> {"split"}
      [] p = "split"   -> {"train"}
      [] p = "train"   -> {"train", "val"}
      [] p = "val"     -> {"val", "config"}
      [] p = "config"  -> {"summary"}
      [] p = "summary" -> {"idle"}

\* what C22 says of one step of a run
C22_Step ==
    /\ pc' \in NextPhases(pc)
    \* class discovery is over every pair found and ends before partitioning
    /\ pc' = "split" => pc = "collect" /\ DOMAIN class_mapping' = FoundLabels
    \* the partition is made once, in its phase, before any conversion
    /\ (train_pairs' # train_pairs \/ val_pairs' # val_pairs) =>
          pc \in {"idle", "split"} /\ trace' = << >>
    /\ pc = "split" => Len(train_pairs') + Len(val_pairs') = Len(listing)
    \* pairs are converted in the two conversion phases only: the train pairs
    \* in their order, then the val pairs in theirs
    /\ trace' # trace /\ trace' # << >> =>
          /\ pc \in Splits /\ pc' = pc
          /\ trace' = Append(trace, trace'[Len(trace')])
          /\ trace'[Len(trace')].split = pc
          /\ pc = "train" => /\ Len(trace') <= Len(train_pairs)
                             /\ trace'[Len(trace')].pair = train_pairs[Len(trace')]
          /\ pc = "val" => /\ Len(trace) >= Len(train_pairs)
                           /\ Len(trace') <= Len(listing)
                           /\ trace'[Len(trace')].pair =
                                  val_pairs[Len(trace') - Len(train_pairs)]
    /\ (pc = "train" /\ pc' = "val") => Len(trace) = Len(train_pairs)
    /\ (pc = "val" /\ pc' = "config") => Len(trace) = Len(listing)
    \* the config files are written by the one step that follows both splits
    /\ out'.config # out.config => pc = "config"
    /\ pc = "config" => Len(trace) = Len(listing) /\ trace' = trace
    \* the summary is returned last
    /\ (result' # result /\ result'.kind = "return") => pc = "summary"

\* C22: within one run the phases execute strictly in order with no overlap:
\* class discovery over all pairs completes before partitioning, partitioning
\* before any per-pair conversion, all train pairs and then all val pairs are
\* converted, and config emission runs exactly once, after both splits.
C22_PhasesInOrder == [][C22_Step]_vars

\* a run that converted a train pair and then a val pair has emitted its
\* config files and returned
C22_Witness ==
    /\ result.kind = "return"
    /\ Len(trace) = 2
    /\ trace[1].split = "train" /\ trace[2].split = "val"
    /\ "dataset.yaml" \in DOMAIN out.config


\* One pair converted under any class mapping: the iteration of
\* _convert_split on a pair a.jpg / a.json, with a class mapping that need not
\* come from the same file (the case the code guards with
\* 'label in self.class_mapping').
PairLabels == {La, Lb, LB}
PairUnderTest == << File("a", ".jpg"), File("a", ".json") >>

InitPair ==
    /\ inputExists = TRUE
    /\ inFiles = Range(PairUnderTest)
    /\ inJson \in [Stems -> JsonContents]
    /\ inJson["b"] = InvalidJson
    /\ out = PrepareOutputFolders(EmptyTree)
    /\ class_mapping \in { ClassMappingOf(S) : S \in SUBSET PairLabels }
    /\ conversion_stats = NewStats
    /\ pc \in Splits
    /\ args \in [ train_ratio : Ratios, copy_images : BOOLEAN, target_size : TargetSizes ]
    /\ listing = << PairUnderTest >>
    /\ train_pairs = (IF pc = "train" THEN << PairUnderTest >> ELSE << >>)
    /\ val_pairs = (IF pc = "val" THEN << PairUnderTest >> ELSE << >>)
    /\ idx = 1 /\ split_stats = NewSplitStats
    /\ train_stats = NewSplitStats /\ val_stats = NewSplitStats
    /\ result = Running
    /\ runsLeft = 1 /\ faultsLeft = MaxFaults
    /\ trace = << >> /\ prev = Idle
    /\ heldMappings = << >>
    /\ vResult = Idle
    /\ HarnessIdle

NextPair == ConvertPair

SpecPair == InitPair /\ [][NextPair]_vars

\* the shapes of a document the conversion ignores: not a rectangle, a blank
\* label, or a trimmed label that is not in the mapping
IgnoredShapes(data, mapping) ==
    DOMAIN Get(data, "shapes", << >>) \ QualifyingShapes(data, mapping)

\* the number of qualifying rectangles of a document that carry the label
QualifyingWithLabel(data, mapping, label) ==
    Cardinality({ i \in QualifyingShapes(data, mapping) :
                      Strip(data.shapes[i].label) = label })

\* C23 (checked under SpecPair, one pair and any class mapping): a shape that
\* is not a rectangle, has an empty or whitespace-only label, or whose trimmed
\* label is not in the class mapping contributes no label line, raises no
\* annotation or per-class count and records no error.  A pair all of whose
\* shapes are such is converted (unless an I/O step fails) with an empty label
\* file; a converted pair has one line and one count per qualifying rectangle
\* and none for the others.
C23_IgnoredShapesSilent ==
    \A e \in Entries :
        LET data == inJson[e.pair[2].stem]
            q == QualifyingShapes(data, class_mapping)
            counts == conversion_stats.class_counts
        IN  ("imageWidth" \in DOMAIN data /\ "imageHeight" \in DOMAIN data) =>
              /\ (q = {} /\ e.exc # "OSError") =>
                    /\ ~Failed(e)
                    /\ split_stats.converted = 1 /\ split_stats.skipped = 0
                    /\ split_stats.errors = << >>
                    /\ out.labels[e.split][LabelOf(e.pair[1])] = << >>
                    /\ counts = EmptyDict
              /\ ~Failed(e) =>
                    /\ e.annotation_count = Cardinality(q)
                    /\ split_stats.annotations = Cardinality(q)
                    /\ Len(out.labels[e.split][LabelOf(e.pair[1])]) = Cardinality(q)
                    /\ \A l \in DOMAIN counts :
                          counts[l] = QualifyingWithLabel(data, class_mapping, l)
                    /\ \A i \in q : Strip(data.shapes[i].label) \in DOMAIN counts
                    /\ split_stats.errors = << >>

\* a converted pair whose document holds a rectangle with a label that is not
\* in the mapping and a polygon: nothing written, nothing counted
C23_Witness ==
    /\ trace # << >>
    /\ ~Failed(trace[1])
    /\ class_mapping # EmptyDict
    /\ LET data == inJson["a"]
       IN  /\ "shapes" \in DOMAIN data /\ Len(data.shapes) = 2
           /\ IgnoredShapes(data, class_mapping) = {1, 2}
           /\ data.shapes[1].shape_type = "rectangle"
           /\ Strip(data.shapes[1].label) \notin DOMAIN class_mapping
           /\ Strip(data.shapes[1].label) # LEmpty
    /\ out.labels[trace[1].split][LabelOf(trace[1].pair[1])] = << >>
    /\ split_stats.converted = 1


\* the step is the call of convert_dataset (lines 50-55, with _reset_stats)
CallStep == pc = "idle" /\ (pc' = "prepare" \/ runsLeft' # runsLeft)

\* C24 as claimed: once a run has begun, conversion_stats is changed by the
\* per-pair conversion steps only: folder preparation, pair listing, class
\* discovery, partitioning, config emission and summary generation leave it
\* unchanged, and so does everything after the run has completed.
\* _collect_class_info appends to conversion_stats['errors'] (line 151).
C24_StatsChangedByConversionOnly ==
    [][(pc \notin Splits /\ ~CallStep) => conversion_stats' = conversion_stats]_vars


\* C25 as claimed: after a completed run the counters total_images,
\* converted_images, skipped_images and total_annotations of conversion_stats
\* are the numbers of pairs, of converted pairs, of skipped pairs and of
\* annotations written by that run.  No line of the converter assigns them
\* after _reset_stats: the counts of a run are kept in the split statistics.
C25_StatsCountersMaintained ==
    result.kind = "return" =>
        /\ conversion_stats.total_images = Len(listing)
        /\ conversion_stats.converted_images =
              Cardinality({ k \in DOMAIN trace : ~Failed(trace[k]) })
        /\ conversion_stats.skipped_images =
              Cardinality({ k \in DOMAIN trace : Failed(trace[k]) })
        /\ conversion_stats.total_annotations =
              train_stats.annotations + val_stats.annotations


\* sum(d.values()) for a dict of numbers
RECURSIVE SumValues(_)
SumValues(d) ==
    IF DOMAIN d = {} THEN 0
    ELSE LET k == CHOOSE x \in DOMAIN d : TRUE
         IN  d[k] + SumValues([x \in DOMAIN d \ {k} |-> d[x]])

\* the number of lines of the label files of the output folder
LabelLinesWritten ==
    SumValues([s \in Splits |->
                 SumValues([f \in DOMAIN out.labels[s] |-> Len(out.labels[s][f])])])

\* C26 as claimed (one run into an empty output folder): in the summary the
\* per-class annotation counts add up to the total annotation count, and
\* both equal the number of lines of the label files written, also when a
\* pair fails after some of its shapes were counted.  class_counts is raised
\* inside the shape loop (line 253), before the copy, the label write or a
\* later malformed shape can fail; the total counts converted pairs only.
C26_ClassCountsMatchTotal ==
    result.kind = "return" =>
        /\ SumValues(result.summary.class_info)
              = result.summary.statistics.total_annotations
        /\ result.summary.statistics.total_annotations = LabelLinesWritten


C28_NoImageWithoutLabel ==
    result.kind = "return" =>
        /\ \A s \in Splits : \A f \in DOMAIN out.images[s] :
              LabelOf(f) \in DOMAIN out.labels[s]
        /\ \A e \in Entries :
              Failed(e) => \A s \in Splits : e.pair[1] \notin DOMAIN out.images[s]


\* f.lower().endswith('.json') (file_utils.py line 29)
IsJson(f) == Lower(f.ext) = ".json"

\* validate_folder_structure (file_utils.py): the dict it returns for a folder
\* that is missing or holds the files all_files
ValidateFolderStructure(exists, all_files) ==
    IF ~exists
    THEN [ valid |-> FALSE, errors |-> << "folder does not exist" >>,
           warnings |-> << >>, info |-> EmptyDict ]
    ELSE LET image_files == { f \in all_files : IsImage(f) }
             json_files == { f \in all_files : IsJson(f) }
             pairs == { f \in image_files : JsonOf(f) \in json_files }
             n_img == Cardinality(image_files)
             n_json == Cardinality(json_files)
             n_pairs == Cardinality(pairs)
             errors ==
                 (IF n_img = 0 THEN << "no image file" >> ELSE << >>)
                 \o (IF n_json = 0 THEN << "no JSON file" >> ELSE << >>)
             warnings ==
                 (IF n_pairs < n_img
                  THEN << [unpaired |-> n_img - n_pairs] >> ELSE << >>)
                 \o (IF n_json > n_img
                     THEN << [extra_json |-> n_json - n_img] >> ELSE << >>)
         IN  [ valid |-> (errors = << >>), errors |-> errors, warnings |-> warnings,
               info |-> [ images |-> n_img, jsons |-> n_json, pairs |-> n_pairs ] ]

\* perform_conversion (streamlit_app.py): the pre-check of the input folder
ValidateInput ==
    /\ pc = "idle" /\ result = NoResult /\ precheck = Idle
    /\ precheck' = ValidateFolderStructure(inputExists, inFiles)
    /\ UNCHANGED << runVars, splitIn, splitOut, boxIn, boxOut, vTree, vResult >>

\* perform_conversion: convert_dataset is called once the pre-check has
\* passed, without target_size
PerformConvert ==
    /\ precheck # Idle
    /\ precheck.valid
    /\ ConvertDataset
    /\ args'.target_size = NoSize

NextPerform ==
    \/ ValidateInput
    \/ PerformConvert
    \/ PrepareOutput
    \/ GetImageJsonPairs
    \/ CollectClassInfo
    \/ SplitPairs
    \/ ConvertPair
    \/ ConvertSplitReturn
    \/ GenerateConfig
    \/ ReturnSummary
    \/ ValidateOutput

\* the dashboard's conversion of any input folder
SpecPerform == Init /\ [][NextPerform]_vars

\* C29 as claimed (checked under SpecPerform): whenever
\* validate_folder_structure returned valid = True, convert_dataset on the
\* same folder finds at least one pair and does not raise the 'no valid
\* pairs' error.  The pre-check asks for an image file and a JSON file, not
\* for a pair: the number of pairs only feeds a warning.
C29_PrecheckSufficient ==
    (precheck # Idle /\ precheck.valid) =>
        /\ result.kind = "raise" => result.exc # "ValueError"
        /\ pc \in {"collect", "split", "train", "val", "config", "summary"} =>
              listing # << >>


\* the second call converted the pairs in the splits and order of the first,
\* and no I/O step failed in either
SameAssignmentAsFirstRun ==
    /\ SecondRunDone
    /\ faultsLeft = MaxFaults
    /\ prev.train_pairs = train_pairs
    /\ prev.val_pairs = val_pairs

\* C30 (checked under SpecRerun, two calls on one instance over the same
\* input folder): the summary of the second call holds the counts, classes
\* and errors of the second run only: its converted and skipped counts and
\* its error list are those of the pairs the second call processed, its
\* class mapping is the one of the folder, and when the second call converts
\* the pairs in the same splits and order as the first, which ran on a fresh
\* instance, its summary equals the first one.  The summary returned by the
\* first call is not altered by the second: the dict its class mapping entry
\* refers to still holds what it held at the first return.
C30_SecondCallLikeFresh ==
    /\ (prev # Idle /\ prev.result.kind = "return") =>
          heldMappings[1] = prev.result.summary.class_mapping
    /\ SecondRunDone =>
          LET sm == result.summary
              failed == { k \in DOMAIN trace : Failed(trace[k]) }
          IN  /\ sm.statistics.skipped = Cardinality(failed)
              /\ sm.statistics.converted = Len(trace) - Cardinality(failed)
              /\ Len(sm.errors) = Cardinality(failed)
              /\ \A k \in DOMAIN sm.errors :
                    \E j \in failed : sm.errors[k].file = trace[j].pair[1]
              /\ sm.class_mapping = ClassMappingOf(FoundLabels)
              /\ DOMAIN sm.class_info \subseteq DOMAIN sm.class_mapping
    /\ SameAssignmentAsFirstRun => result.summary = prev.result.summary

\* two calls with the same split assignment, each with a converted pair, a
\* counted class and a skipped pair
C30_Witness ==
    /\ SameAssignmentAsFirstRun
    /\ result.summary.statistics.converted = 1
    /\ result.summary.statistics.skipped = 1
    /\ result.summary.class_info # EmptyDict
    /\ result.summary.errors # << >>
    /\ Len(heldMappings) = 2

=============================================================================
